---- MODULE Spec2Model ----
(***************************************************************************)
(* git-delete-branch: model of main() of src/main.go (the fzf version,     *)
(* lines 157-378) and of getBranchDetail (lines 136-155).                  *)
(*                                                                         *)
(* Strings are sequences of tokens.  A token is a whitespace character     *)
(* (" " or "\n"), the marker "*", or one word (a branch name, a field of   *)
(* git log); words stand for runs of non-space characters.                 *)
(***************************************************************************)
EXTENDS Naturals, Integers, Sequences, FiniteSets, TLC

VARIABLES
    pc,               \* position of main()
    exitCode,         \* -1 while running, else the status given to os.Exit / return of main
    exitAt,           \* the position main exited from
    failed,           \* the failed call to the system that made main give up, if any
    currentBranch,    \* main.go:227
    output,           \* main.go:230, output of `git branch`
    cleanBranches,    \* main.go:241
    msgs,             \* message ids printed so far (stdout and stderr)
    prod,             \* the goroutine of main.go:272-277: [st, idx]
    pipe,             \* fzfStdin: lines written and not yet read, and its capacity
    fzf,              \* the fzf subprocess: [st, read, code, out]
    branchesToDelete, \* main.go:303
    details,          \* main.go:306
    fetch,            \* the last getBranchDetail call: [branch, exit, out, err]
    table,            \* rows printed by main.go:339-341
    confirm,          \* main.go:349
    answer,           \* what the user did at the confirmation prompt
    loop,             \* index of the running loop over branchesToDelete
    sent,             \* lines the goroutine has handed to fmt.Fprintln
    deleteLog,        \* the `git branch <flag> <branch>` invocations of main.go:360, with their result
    deleted,          \* branches the repository has lost through this run
    annotator,        \* whether the build has the merge-status annotator (README, Visual Merge Status)
    mergeQuery,       \* how the merge-status query ended: "none", "ok" or "failed"
    tags              \* the merge status the annotator gave each candidate

vars == <<pc, exitCode, exitAt, failed, currentBranch, output, cleanBranches, msgs, prod, pipe, fzf,
          branchesToDelete, details, fetch, table, confirm, answer,
          loop, sent, deleteLog, deleted, annotator, mergeQuery, tags>>

----------------------------------------------------------------------------
(* Bounds *)

MaxBranches == 2   \* local branches in the repository
MaxCap == 2        \* largest pipe capacity, in lines
MaxLines == 5      \* most lines of words in the output of git log

\* main.go:287
FzfCancelled == 130

----------------------------------------------------------------------------
(* Strings *)

NL == "\n"
SP == " "

IsSpace(c) == c \in {SP, NL}

RECURSIVE TrimLeft(_)
TrimLeft(s) == IF s # <<>> /\ IsSpace(Head(s)) THEN TrimLeft(Tail(s)) ELSE s

RECURSIVE TrimRight(_)
TrimRight(s) ==
    IF s # <<>> /\ IsSpace(s[Len(s)]) THEN TrimRight(SubSeq(s, 1, Len(s) - 1)) ELSE s

\* strings.TrimSpace
TrimSpace(s) == TrimRight(TrimLeft(s))

\* strings.TrimPrefix
TrimPrefix(s, p) ==
    IF Len(s) >= Len(p) /\ SubSeq(s, 1, Len(p)) = p
    THEN SubSeq(s, Len(p) + 1, Len(s))
    ELSE s

\* strings.Split(s, "\n"): always at least one element
RECURSIVE SplitFrom(_, _)
SplitFrom(s, cur) ==
    IF s = <<>> THEN <<cur>>
    ELSE IF Head(s) = NL THEN <<cur>> \o SplitFrom(Tail(s), <<>>)
    ELSE SplitFrom(Tail(s), Append(cur, Head(s)))

Split(s) == SplitFrom(s, <<>>)

\* fmt.Fprintln of every line, one after the other
RECURSIVE JoinLn(_)
JoinLn(ls) == IF ls = <<>> THEN <<>> ELSE Head(ls) \o <<NL>> \o JoinLn(Tail(ls))

Range(s) == {s[i] : i \in 1..Len(s)}

IsPrefix(s, t) == Len(s) <= Len(t) /\ s = SubSeq(t, 1, Len(s))

----------------------------------------------------------------------------
(* What the environment can answer *)

Names == {ToString(i) : i \in 1..MaxBranches}

\* sequences without repetition of up to n elements of S
InjSeqs(S, n) ==
    UNION {{s \in [1..k -> S] : \A i, j \in 1..k : s[i] = s[j] => i = j} : k \in 0..n}

\* `git branch` prints one line per branch, "* " before the checked-out one and
\* "  " before the others, each ended by a newline
RECURSIVE BranchLines(_, _)
BranchLines(ns, star) ==
    IF ns = <<>> THEN <<>>
    ELSE (IF <<Head(ns)>> = star THEN <<"*", SP>> ELSE <<SP, SP>>) \o <<Head(ns), NL>>
         \o BranchLines(Tail(ns), star)

\* the branches of the repository in any order, the one checked out among them or not
GitBranchOutputs(cur) == {BranchLines(ns, cur) : ns \in InjSeqs(Names, MaxBranches)}

\* `git rev-parse --abbrev-ref HEAD` prints the branch name, or HEAD when detached
RevParseOutputs == {<<n, NL>> : n \in Names \cup {"HEAD"}}

\* k words, one per line
RECURSIVE WordLines(_)
WordLines(k) ==
    IF k = 0 THEN <<>> ELSE IF k = 1 THEN <<"x">> ELSE WordLines(k - 1) \o <<NL, "x">>

\* what `git log -1 --pretty=format:%H%n%an%n%ad%n%s` may print (stderr included):
\* up to MaxLines lines, with or without a blank line before and a newline after;
\* with an empty author; with an empty or blank subject
GitLogOutputs ==
    {lead \o WordLines(k) \o trail :
        lead \in {<<>>, <<NL>>}, k \in 0..MaxLines, trail \in {<<>>, <<NL>>}}
    \cup {<<"x", NL, NL, "x", NL, "x">>, <<"x", NL, "x", NL, "x", NL, SP>>,
          <<SP, "x", NL, "x", NL, "x", NL, "x">>}

ExitStatuses == {0, 128}

\* exit statuses of fzf: 0 accepted, 1 no match, 2 error, 130 interrupted
FzfExitCodes == {0, 1, 2, FzfCancelled}

----------------------------------------------------------------------------
(* Pure parts of the program *)

\* main.go:243
CleanLine(branch) == TrimSpace(TrimPrefix(branch, <<"*", SP>>))

KeepBranchAll(branch, cur) == branch # <<>>

\* main.go:244
KeepBranch(branch, cur) == branch # <<>> /\ branch # cur

RECURSIVE CleanLoop(_, _)
CleanLoop(branches, cur) ==
    IF branches = <<>> THEN <<>>
    ELSE LET branch == CleanLine(Head(branches))
         IN  (IF KeepBranch(branch, cur) THEN <<branch>> ELSE <<>>)
             \o CleanLoop(Tail(branches), cur)

\* main.go:240-247
Lister(out, cur) == CleanLoop(Split(out), cur)

NoDetail == [Name |-> <<>>, Hash |-> <<>>, Author |-> <<>>, Date |-> <<>>, Message |-> <<>>]

TooFewLinesStrict(lines) == Len(lines) < 5

\* main.go:144
TooFewLines(lines) == Len(lines) < 4

\* main.go:136-155
getBranchDetail(branchName, exit, out) ==
    IF exit # 0
    THEN [err |-> "git log failed", detail |-> NoDetail]
    ELSE LET lines == Split(TrimSpace(out))
         IN  IF TooFewLines(lines)
             THEN [err |-> "unexpected git log output", detail |-> NoDetail]
             ELSE [err |-> "nil",
                   detail |-> [Name |-> branchName, Hash |-> lines[1], Author |-> lines[2],
                               Date |-> lines[3], Message |-> lines[4]]]

ConfirmDefaultYes == TRUE

\* main.go:347
ConfirmDefault == FALSE

DeleteFlagForce == "-D"

\* main.go:360
DeleteFlag == "-d"

NoCandidatesNever(l) == FALSE

\* main.go:249
NoCandidates(l) == Len(l) = 0

\* main.go:320
NoDetails(l) == Len(l) = 0

IsCancelledNever(code) == FALSE

\* main.go:287
IsCancelled(code) == code = FzfCancelled

ParseSelectionUntrimmed(out) == Split(out)

\* main.go:296, main.go:303
ParseSelection(out) == Split(TrimSpace(out))

----------------------------------------------------------------------------
(* The run *)

NoFetch == [branch |-> <<>>, exit |-> 0, out |-> <<>>, err |-> "none"]

InitRun ==
    /\ pc = "flags"
    /\ exitCode = -1
    /\ exitAt = "none"
    /\ failed = "none"
    /\ currentBranch = <<>>
    /\ output = <<>>
    /\ cleanBranches = <<>>
    /\ msgs = <<>>
    /\ prod = [st |-> "none", idx |-> 1]
    /\ pipe = [buf |-> <<>>, cap |-> 0, gone |-> FALSE, eof |-> FALSE]
    /\ fzf = [st |-> "none", read |-> <<>>, code |-> 0, out |-> <<>>]
    /\ branchesToDelete = <<>>
    /\ details = <<>>
    /\ fetch = NoFetch
    /\ table = <<>>
    /\ confirm = FALSE
    /\ answer = "none"
    /\ loop = 0
    /\ sent = <<>>
    /\ deleteLog = <<>>
    /\ deleted = {}
    /\ tags = <<>>
    /\ mergeQuery = "none"

\* the program of src/main.go, which has no annotator
Init == InitRun /\ annotator = FALSE

Msg(id, arg) == [id |-> id, arg |-> arg]

\* fmt.Println / fmt.Fprintf of one message
Say(m) == msgs' = Append(msgs, m)

\* os.Exit(code), or main returning
Exit(code) == pc' = "exited" /\ exitCode' = code /\ exitAt' = pc

\* main goes on to the next statement
Goto(next) == pc' = next /\ UNCHANGED <<exitCode, exitAt, failed, msgs>>

\* a call to the system failed and main gives up
Fatal(call, id) == failed' = call /\ Exit(1) /\ Say(Msg(id, <<>>))

listerVars == <<currentBranch, output, cleanBranches>>
selectorVars == <<prod, pipe, fzf, sent>>
gateVars == <<branchesToDelete, details, fetch, table, confirm, answer, loop>>
deleteVars == <<deleteLog, deleted>>
annotVars == <<annotator, mergeQuery, tags>>

\* main.go:171-207: -get-log runs git log and exits, -h prints the help and exits
ParseFlags ==
    /\ pc = "flags"
    /\ \E f \in {"none", "help", "get-log ok", "get-log failing"} :
        CASE f = "none" -> Goto("lookPath")
          [] f = "help" -> Exit(0) /\ Say(Msg("HelpUsage", <<>>)) /\ UNCHANGED failed
          [] f = "get-log ok" -> Exit(0) /\ UNCHANGED <<msgs, failed>>
          [] f = "get-log failing" -> Fatal("git log", "Error getting log")
    /\ UNCHANGED <<listerVars, selectorVars, gateVars, deleteVars, annotVars>>

\* main.go:210-214
LookPath ==
    /\ pc = "lookPath"
    /\ \E ok \in BOOLEAN :
        IF ok THEN Goto("revParse")
        ELSE /\ failed' = "LookPath" /\ Exit(1)
             /\ msgs' = msgs \o <<Msg("FzfNotFound", <<>>), Msg("InstallFzf", <<>>)>>
    /\ UNCHANGED <<listerVars, selectorVars, gateVars, deleteVars, annotVars>>

\* main.go:217-227
GetCurrentBranch ==
    /\ pc = "revParse"
    /\ \E ok \in BOOLEAN, out \in RevParseOutputs :
        IF ok
        THEN currentBranch' = TrimSpace(out) /\ Goto("gitBranch")
        ELSE Fatal("git rev-parse", "ErrorGettingCurrentBranch") /\ UNCHANGED currentBranch
    /\ UNCHANGED <<output, cleanBranches, selectorVars, gateVars, deleteVars, annotVars>>

\* main.go:229-238
GitBranch ==
    /\ pc = "gitBranch"
    /\ \E ok \in BOOLEAN, out \in GitBranchOutputs(currentBranch) :
        IF ok
        THEN output' = out /\ Goto("clean")
        ELSE Fatal("git branch", "ErrorRunningGitBranch") /\ UNCHANGED output
    /\ UNCHANGED <<currentBranch, cleanBranches, selectorVars, gateVars, deleteVars, annotVars>>

\* main.go:240-253
ListBranches ==
    /\ pc = "clean"
    /\ cleanBranches' = Lister(output, currentBranch)
    /\ IF NoCandidates(cleanBranches')
       THEN Exit(0) /\ Say(Msg("NoBranchesToDelete", <<>>)) /\ UNCHANGED failed
       ELSE Goto(IF annotator THEN "annotate" ELSE "executable")
    /\ UNCHANGED <<currentBranch, output, selectorVars, gateVars, deleteVars, annotVars>>

\* main.go:257-261
OsExecutable ==
    /\ pc = "executable"
    /\ \E ok \in BOOLEAN :
        IF ok THEN Goto("stdinPipe")
        ELSE Fatal("os.Executable", "Error getting executable path")
    /\ UNCHANGED <<listerVars, selectorVars, gateVars, deleteVars, annotVars>>

\* main.go:263-271: the pipe exists from here on, with the capacity the system gives it
StdinPipe ==
    /\ pc = "stdinPipe"
    /\ \E ok \in BOOLEAN, c \in 1..MaxCap :
        IF ok
        THEN pipe' = [pipe EXCEPT !.cap = c] /\ Goto("go")
        ELSE Fatal("StdinPipe", "Error creating stdin pipe for fzf") /\ UNCHANGED pipe
    /\ UNCHANGED <<listerVars, prod, fzf, sent, gateVars, deleteVars, annotVars>>

\* main.go:272: the go statement
GoProducer ==
    /\ pc = "go"
    /\ prod' = [st |-> "writing", idx |-> 1]
    /\ Goto("run")
    /\ UNCHANGED <<listerVars, pipe, fzf, sent, gateVars, deleteVars, annotVars>>

\* main.go:273-276: one fmt.Fprintln.  It blocks while the pipe is full and fails
\* (the error is dropped) once nobody reads the pipe any more
ProducerWrite ==
    /\ pc # "exited"
    /\ prod.st = "writing"
    /\ prod.idx <= Len(cleanBranches)
    /\ IF pipe.gone
       THEN UNCHANGED pipe
       ELSE /\ Len(pipe.buf) < pipe.cap
            /\ pipe' = [pipe EXCEPT !.buf = Append(@, cleanBranches[prod.idx])]
    /\ sent' = Append(sent, cleanBranches[prod.idx])
    /\ prod' = [prod EXCEPT !.idx = @ + 1]
    /\ UNCHANGED <<pc, exitCode, exitAt, failed, msgs, listerVars, fzf, gateVars, deleteVars,
                   annotVars>>

\* main.go:273: the deferred fzfStdin.Close()
ProducerClose ==
    /\ pc # "exited"
    /\ prod.st = "writing"
    /\ prod.idx > Len(cleanBranches)
    /\ prod' = [prod EXCEPT !.st = "closed"]
    /\ pipe' = [pipe EXCEPT !.eof = TRUE]
    /\ UNCHANGED <<pc, exitCode, exitAt, failed, msgs, listerVars, fzf, sent, gateVars,
                   deleteVars, annotVars>>

RunReadyAfterWrites == pc = "run" /\ prod.st = "closed"

\* main.go:284: Run is called right after the go statement, whatever the goroutine
\* has done by then
RunReady == pc = "run"

\* main.go:284: the Start half of fzfCmd.Run()
FzfStart ==
    /\ RunReady
    /\ \E ok \in BOOLEAN :
        IF ok
        THEN fzf' = [fzf EXCEPT !.st = "running"] /\ Goto("wait") /\ UNCHANGED pipe
        ELSE /\ pipe' = [pipe EXCEPT !.gone = TRUE, !.buf = <<>>]
             /\ Fatal("fzf start", "Error running fzf")
             /\ UNCHANGED fzf
    /\ UNCHANGED <<listerVars, prod, sent, gateVars, deleteVars, annotVars>>

\* fzf reads one line of its standard input
FzfRead ==
    /\ fzf.st = "running"
    /\ pipe.buf # <<>>
    /\ fzf' = [fzf EXCEPT !.read = Append(@, Head(pipe.buf))]
    /\ pipe' = [pipe EXCEPT !.buf = Tail(@)]
    /\ UNCHANGED <<pc, exitCode, exitAt, failed, msgs, listerVars, prod, sent, gateVars,
                   deleteVars, annotVars>>

\* fzf ends: the user accepts some of the lines shown (status 0), nothing matches
\* (1), fzf fails (2) or the user interrupts it (130).  It prints the accepted lines
FzfExit ==
    /\ fzf.st = "running"
    /\ \E code \in FzfExitCodes, sel \in InjSeqs(Range(fzf.read), Len(fzf.read)) :
        /\ code # 0 => sel = <<>>
        /\ fzf' = [fzf EXCEPT !.st = "exited", !.code = code, !.out = JoinLn(sel)]
    /\ pipe' = [pipe EXCEPT !.gone = TRUE, !.buf = <<>>]
    /\ UNCHANGED <<pc, exitCode, exitAt, failed, msgs, listerVars, prod, sent, gateVars,
                   deleteVars, annotVars>>

\* main.go:284-303: the Wait half of fzfCmd.Run() and what main does with the result
RunReturn ==
    /\ pc = "wait"
    /\ fzf.st = "exited"
    /\ IF fzf.code # 0
       THEN /\ IF IsCancelled(fzf.code)
               THEN Exit(0) /\ Say(Msg("DeletionCancelled", <<>>)) /\ UNCHANGED failed
               ELSE Fatal("fzf", "Error running fzf")
            /\ UNCHANGED <<branchesToDelete, loop>>
       ELSE IF TrimSpace(fzf.out) = <<>>
            THEN /\ Exit(0) /\ Say(Msg("NoBranchesSelected", <<>>))
                 /\ UNCHANGED <<failed, branchesToDelete, loop>>
            ELSE /\ branchesToDelete' = ParseSelection(fzf.out)
                 /\ loop' = 1
                 /\ Goto("details")
    /\ UNCHANGED <<listerVars, selectorVars, details, fetch, table, confirm, answer,
                   deleteVars, annotVars>>

\* main.go:307-318: one turn of the loop over branchesToDelete
FetchDetail ==
    /\ pc = "details"
    /\ loop <= Len(branchesToDelete)
    /\ \E exit \in ExitStatuses, out \in GitLogOutputs :
        /\ exit # 0 => out \in {<<>>, WordLines(4)}
        /\ LET branchName == branchesToDelete[loop]
               r == getBranchDetail(branchName, exit, out)
           IN  /\ fetch' = [branch |-> branchName, exit |-> exit, out |-> out, err |-> r.err]
               /\ IF r.err # "nil"
                  THEN Say(Msg("ErrorGettingBranchDetails", branchName)) /\ UNCHANGED details
                  ELSE details' = Append(details, r.detail) /\ UNCHANGED msgs
    /\ loop' = loop + 1
    /\ UNCHANGED <<pc, exitCode, exitAt, failed, listerVars, selectorVars, branchesToDelete,
                   table, confirm, answer, deleteVars, annotVars>>

\* main.go:320-342
ShowTable ==
    /\ pc = "details"
    /\ loop > Len(branchesToDelete)
    /\ fetch' = NoFetch
    /\ IF NoDetails(details)
       THEN Exit(0) /\ Say(Msg("NoBranchesSelected", <<>>)) /\ UNCHANGED <<failed, table>>
       ELSE /\ msgs' = Append(msgs, Msg("ConfirmDeletion", <<>>))
            /\ table' = details
            /\ pc' = "confirm"
            /\ UNCHANGED <<exitCode, exitAt, failed>>
    /\ UNCHANGED <<listerVars, selectorVars, branchesToDelete, details, confirm, answer, loop,
                   deleteVars, annotVars>>

Answers == {"yes", "no", "enter", "interrupt"}

\* main.go:345-356: survey.AskOne sets confirm unless the prompt is interrupted, and
\* its error is dropped
Confirm ==
    /\ pc = "confirm"
    /\ \E a \in Answers :
        /\ answer' = a
        /\ confirm' = CASE a = "yes" -> TRUE
                        [] a = "no" -> FALSE
                        [] a = "enter" -> ConfirmDefault
                        [] a = "interrupt" -> confirm
    /\ IF ~confirm'
       THEN Exit(0) /\ Say(Msg("DeletionCancelled", <<>>)) /\ UNCHANGED <<failed, loop>>
       ELSE loop' = 1 /\ Goto("delete")
    /\ UNCHANGED <<listerVars, selectorVars, branchesToDelete, details, fetch, table,
                   deleteVars, annotVars>>

DeletionListShown == [i \in 1..Len(details) |-> details[i].Name]

\* main.go:359: the loop ranges over the whole selection
DeletionList == branchesToDelete

\* main.go:359-377: one turn of the loop
DeleteBranch ==
    /\ pc = "delete"
    /\ loop <= Len(DeletionList)
    /\ \E ok \in BOOLEAN :
        LET branch == DeletionList[loop]
        IN  /\ deleteLog' = Append(deleteLog, [branch |-> branch, flag |-> DeleteFlag, ok |-> ok])
            /\ deleted' = IF ok THEN deleted \cup {branch} ELSE deleted
            /\ Say(Msg(IF ok THEN "BranchDeletedSuccessfully" ELSE "ErrorDeletingBranch", branch))
    /\ loop' = loop + 1
    /\ UNCHANGED <<pc, exitCode, exitAt, failed, listerVars, selectorVars, branchesToDelete,
                   details, fetch, table, confirm, answer, annotVars>>

\* main.go:378: main returns
MainReturn ==
    /\ pc = "delete"
    /\ loop > Len(DeletionList)
    /\ Exit(0)
    /\ UNCHANGED <<failed, msgs, listerVars, selectorVars, gateVars, deleteVars, annotVars>>

SelectorStage ==
    \/ ParseFlags
    \/ LookPath
    \/ GetCurrentBranch
    \/ GitBranch
    \/ ListBranches
    \/ OsExecutable
    \/ StdinPipe
    \/ GoProducer
    \/ FzfStart
    \/ RunReturn

Producer == ProducerWrite \/ ProducerClose

GateStage ==
    \/ FetchDetail
    \/ ShowTable
    \/ Confirm
    \/ DeleteBranch
    \/ MainReturn

Next == SelectorStage \/ Producer \/ FzfRead \/ FzfExit \/ GateStage

Spec == Init /\ [][Next]_vars

----------------------------------------------------------------------------
(* The merge-status annotator of section 4.2 of the specification, which the     *)
(* README describes and src/main.go does not have: it runs between the lister and *)
(* the selector                                                                   *)

TagsOnFailureMerged(cands) == [i \in 1..Len(cands) |-> "merged"]

\* the merge-status query failed: every candidate counts as unmerged
TagsOnFailure(cands) == [i \in 1..Len(cands) |-> "unmerged"]

\* the candidates that the merged-branch listing names are merged
TagsFrom(cands, merged) ==
    [i \in 1..Len(cands) |-> IF cands[i] \in merged THEN "merged" ELSE "unmerged"]

AnnotateMerged ==
    /\ pc = "annotate"
    /\ \E ok \in BOOLEAN, merged \in SUBSET Range(cleanBranches) :
        IF ok
        THEN /\ tags' = TagsFrom(cleanBranches, merged)
             /\ mergeQuery' = "ok"
             /\ UNCHANGED msgs
        ELSE /\ merged = {}
             /\ tags' = TagsOnFailure(cleanBranches)
             /\ mergeQuery' = "failed"
             /\ Say(Msg("MergeStatusWarning", <<>>))
    /\ pc' = "executable"
    /\ UNCHANGED <<exitCode, exitAt, failed, annotator, listerVars, selectorVars, gateVars,
                   deleteVars>>

InitAnnotated == InitRun /\ annotator = TRUE

NextAnnotated == SelectorStage \/ AnnotateMerged \/ Producer \/ FzfRead \/ FzfExit

SpecAnnotated == InitAnnotated /\ [][NextAnnotated]_vars

----------------------------------------------------------------------------
(* The selector stage alone, with the scheduling of the goroutine, of main and of *)
(* the fzf process, and a user who ends fzf                                       *)

NextSelector == SelectorStage \/ Producer \/ FzfRead \/ FzfExit

SpecSelector ==
    /\ Init
    /\ [][NextSelector]_vars
    /\ WF_vars(SelectorStage)
    /\ WF_vars(Producer)
    /\ WF_vars(FzfRead)
    /\ WF_vars(FzfExit)

----------------------------------------------------------------------------
(* Claims *)

\* main has run the lister (main.go:240-247)
ListerRan ==
    /\ pc \notin {"flags", "lookPath", "revParse", "gitBranch", "clean"}
    /\ pc = "exited" => exitAt \notin {"flags", "lookPath", "revParse", "gitBranch"}

\* `git branch` listed the checked-out branch
CurrentWasListed == (<<"*", SP>> \o currentBranch) \in Range(Split(output))

DiagFor(b) == Msg("ErrorGettingBranchDetails", b)

TableNames == {table[j].Name : j \in 1..Len(table)}

DeleteNames == {deleteLog[k].branch : k \in 1..Len(deleteLog)}

\* C1: whatever `git branch` and `git rev-parse` printed, no candidate of the lister
\* is the current branch: none equals its name and none has its name as a word
C1_CandidatesExcludeCurrent ==
    \A i \in 1..Len(cleanBranches) :
        /\ cleanBranches[i] # currentBranch
        /\ \A w \in Range(currentBranch) : w \notin Range(cleanBranches[i])

C1_Witness == ListerRan /\ CurrentWasListed /\ cleanBranches # <<>>

\* C2: a branch delete is invoked only after the confirmation prompt was answered
\* yes; any other answer (no, the default, an interrupted prompt) ends the run with
\* exit code 0 and no delete invocation
C2_NoDeleteWithoutYes ==
    /\ deleteLog # <<>> => answer = "yes"
    /\ pc = "delete" => answer = "yes"
    /\ answer \in {"no", "enter", "interrupt"} =>
        pc = "exited" /\ exitCode = 0 /\ deleteLog = <<>>

C2_Witness == answer = "enter" /\ pc = "exited" /\ table # <<>>

\* C3: every selected name and every name passed to the delete operation is a
\* candidate of the lister, and none is the branch that was current at listing time
C3_DeletesAreCandidates ==
    /\ \A i \in 1..Len(branchesToDelete) :
        branchesToDelete[i] \in Range(cleanBranches) /\ branchesToDelete[i] # currentBranch
    /\ \A k \in 1..Len(deleteLog) :
        deleteLog[k].branch \in Range(cleanBranches) /\ deleteLog[k].branch # currentBranch

C3_Witness == CurrentWasListed /\ deleteLog # <<>>

\* C4: after a yes, the non-forced delete is invoked once per selected branch, in
\* selection order, whatever the earlier deletes returned; a successful delete stays
\* done; every attempt is reported as a success or as a failure
C4_DeleteEachOnceInOrder ==
    answer = "yes" =>
        LET n == Len(deleteLog)
            report(k) == Msg(IF deleteLog[k].ok THEN "BranchDeletedSuccessfully"
                                                ELSE "ErrorDeletingBranch",
                             deleteLog[k].branch)
        IN  /\ n <= Len(branchesToDelete)
            /\ \A k \in 1..n :
                deleteLog[k].branch = branchesToDelete[k] /\ deleteLog[k].flag = "-d"
            /\ pc = "delete" => n = loop - 1
            /\ pc = "exited" => n = Len(branchesToDelete) /\ exitCode = 0
            /\ deleted = {deleteLog[k].branch : k \in {j \in 1..n : deleteLog[j].ok}}
            /\ Len(msgs) >= n
            /\ \A k \in 1..n : msgs[Len(msgs) - n + k] = report(k)

C4_Witness ==
    /\ pc = "exited"
    /\ Len(deleteLog) = 2
    /\ ~deleteLog[1].ok
    /\ deleteLog[2].ok

\* C5: after a confirmed run the branches a delete was invoked for are the whole
\* selection, the branches missing from the confirmation table included
C5_DeletesWholeSelection ==
    (pc = "exited" /\ answer = "yes") => DeleteNames = Range(branchesToDelete)

C5_Witness ==
    /\ pc = "exited"
    /\ answer = "yes"
    /\ \E b \in Range(branchesToDelete) :
        b \notin TableNames /\ DiagFor(b) \in Range(msgs) /\ b \in DeleteNames

\* lines of the output between its first and its last non-blank character
LinesReturned(out) ==
    LET words == {i \in 1..Len(out) : out[i] \notin {SP, NL}}
        first == CHOOSE i \in words : \A j \in words : i <= j
        last == CHOOSE i \in words : \A j \in words : j <= i
    IN  IF words = {} THEN 0
        ELSE 1 + Cardinality({i \in first..last : out[i] = NL})

NoOpOutcome ==
    \/ ListerRan /\ cleanBranches = <<>>
    \/ fzf.st = "exited" /\ fzf.code = 0 /\ \A i \in 1..Len(fzf.out) : fzf.out[i] \in {SP, NL}
    \/ fzf.st = "exited" /\ fzf.code = 130
    \/ /\ branchesToDelete # <<>>
       /\ \A b \in Range(branchesToDelete) : DiagFor(b) \in Range(msgs)
    \/ answer \in {"no", "enter", "interrupt"}

\* the failures main cannot go on after
FatalOutcome ==
    \/ failed \in {"git rev-parse", "git branch", "LookPath", "os.Executable", "fzf start"}
    \/ fzf.st = "exited" /\ fzf.code \notin {0, 130}

C8_MergeQueryFailureDegrades ==
    mergeQuery = "failed" =>
        /\ Msg("MergeStatusWarning", <<>>) \in Range(msgs)
        /\ Len(tags) = Len(cleanBranches)
        /\ \A i \in 1..Len(tags) : tags[i] = "unmerged"
        /\ exitAt # "annotate"
        /\ IsPrefix(sent, cleanBranches)
        /\ prod.st = "closed" => sent = cleanBranches

C8_Witness ==
    /\ mergeQuery = "failed"
    /\ Len(cleanBranches) = 2
    /\ prod.st = "closed"
    /\ fzf.read = cleanBranches

\* C9: with no candidate left the run prints the nothing-to-delete message and exits
\* 0 without a selector, a detail fetch, a prompt or a delete; the selector and the
\* goroutine feeding it only ever start with candidates
C9_NoCandidatesNoSelector ==
    /\ (ListerRan /\ cleanBranches = <<>>) =>
        /\ pc = "exited" /\ exitCode = 0
        /\ msgs = <<Msg("NoBranchesToDelete", <<>>)>>
        /\ fzf.st = "none" /\ prod.st = "none" /\ pipe.cap = 0
        /\ fetch = NoFetch /\ details = <<>> /\ answer = "none" /\ deleteLog = <<>>
    /\ (fzf.st # "none" \/ prod.st # "none" \/ pipe.cap # 0) => cleanBranches # <<>>

C9_Witness == ListerRan /\ CurrentWasListed /\ cleanBranches = <<>> /\ pc = "exited"

\* C10: the goroutine hands the candidates to the selector's input once each, in
\* lister order, and closes it after the last; the selector reads them in that
\* order; and once the goroutine is started main always gets the selector's result,
\* whatever the number of candidates, the capacity of the pipe and the moment the
\* selector exits
C10_ProducerFeedsSelector ==
    /\ [](/\ IsPrefix(sent, cleanBranches)
          /\ IsPrefix(fzf.read \o pipe.buf, sent)
          /\ prod.st = "closed" => sent = cleanBranches
          /\ pipe.eof => prod.st = "closed")
    /\ (pc = "run") ~> (pc \in {"details", "exited"})

C10_Witness ==
    /\ pc \in {"details", "exited"}
    /\ fzf.st = "exited"
    /\ Len(cleanBranches) > pipe.cap
    /\ Len(fzf.read) < Len(cleanBranches)

====
